---- MODULE Spec2Model ----
(***************************************************************************)
(* module_webserver (src/webserver.c): a single sequential entry call that *)
(* creates a listening socket, accepts connections one at a time, answers  *)
(* OPTIONS with a fixed header block and, for GET, copies the output of a  *)
(* popen()ed subprocess to the accepted socket.                            *)
(*                                                                         *)
(* The entry call is one flow of control; pc is its position.  Each action *)
(* is one system call of the function together with the error check and    *)
(* the status() calls that follow it.  The results of the system calls are *)
(* inputs of the environment, drawn with \E.                               *)
(*                                                                         *)
(* Bytes are named by their offset: byte i of the header block, byte i of  *)
(* the subprocess output.  What a socket has accepted is a sequence of     *)
(* segments [k, lo, hi] (bytes lo..hi of the header or of the pipe).       *)
(***************************************************************************)
EXTENDS Integers, Sequences, FiniteSets

\* ---------------------------------------------------------------- bounds
\* accept() is called at most MaxAccepts times (the loop itself is unbounded)
MaxAccepts == 2
\* the subprocess writes at most MaxChunks full chunks before it ends
MaxChunks == 2

\* ------------------------------------------------------ program constants
\* uint8_t writable[1764]
ChunkSize == 1764
\* strlen(response)
HeaderLen == 353

\* ------------------------------------------------------------ input sets
\* first tokens of the bytes one read() returns (<< >>: nothing was read)
Requests ==
  { << >>,
    <<"OPTIONS">>,
    <<"GET", "/">>,
    <<"OPTIONS", "/", "HTTP/1.1">>,
    <<"GET", "/", "HTTP/1.1">>,
    <<"POST", "/", "HTTP/1.1">> }

\* what the arrays method, uri, version can hold
MethodVals == {"OPTIONS", "GET", "POST", ""}
UriVals == {"/", ""}
VersionVals == {"HTTP/1.1", ""}

\* total length of the subprocess output
PipeLens == {0, 10, ChunkSize + 1, MaxChunks * ChunkSize}

\* what write(fd, buf, n) can return: -1, or the number of bytes accepted:
\* all n of them, or fewer (a short write, here n - 1)
WriteResults(n) == {r \in {-1, n - 1, n} : r >= -1}

\* errno of a failed write
WriteErrnos == {"EPIPE", "ECONNRESET"}

VARIABLES
  pc,          \* position of the entry call
  result,      \* what the entry call returned: "none" until it returns
  failedAt,    \* the call whose failure made the entry call return
  sigpipe,     \* disposition of SIGPIPE
  sockfd,      \* the listening socket: "none", "open", "bound", "listening"
  calls,       \* number of socket, bind, listen, accept calls made
  thrown,      \* errors raised with JS_ThrowInternalError and not returned
  statusLog,   \* the strings handed to status(), in order
  conns,       \* per accepted socket: [sock: "open" or "closed",
               \*   kind: the branch taken for it, "none" before the dispatch]
  sent,        \* per accepted socket: the segments the client accepted
  buffer,      \* tokens of the bytes read from the current connection
  method, uri, version,   \* the arrays sscanf fills
  pipe,        \* the popen stream: "none", "open", "closed"
  pipeLen,     \* total bytes the subprocess writes
  readPos,     \* bytes fread has taken from the pipe so far
  chunk,       \* writable[0..count): [lo, count]
  hist         \* history: counters and flags the properties read

vars == <<pc, result, failedAt, sigpipe, sockfd, calls, thrown, statusLog,
          conns, sent, buffer, method, uri, version, pipe, pipeLen,
          readPos, chunk, hist>>

\* the variables of one streaming session
stream == <<pipe, pipeLen, readPos, chunk>>
\* the variables of request parsing
parsed == <<buffer, method, uri, version>>

\* ------------------------------------------------------------- helpers
\* the accepted socket `request`
cur == Len(conns)

\* the branch taken for the current connection
dispatch == IF cur = 0 THEN "none" ELSE conns[cur].kind

Min(a, b) == IF a < b THEN a ELSE b

\* status(ctx, argv[1], str)
status(log, str) == Append(log, str)

\* the bytes lo..hi of kind k, accepted by a socket (nothing when hi < lo)
Accepted(s, k, lo, n) ==
  IF n > 0 THEN Append(s, [k |-> k, lo |-> lo, hi |-> lo + n - 1]) ELSE s

\* return JS_ThrowInternalError(...) / JS_ThrowTypeError(...)
ReturnError(at) ==
  /\ pc' = "returned"
  /\ result' = "exception"
  /\ failedAt' = at

\* the message of JS_ThrowInternalError for a failed accept, getsockname, read
ErrorText(call) ==
  CASE call = "accept" -> "server error (accept)"
    [] call = "getsockname" -> "server error (getsockname)"
    [] call = "read" -> "server error (read)"

\* what sscanf("%s %s %s") leaves in the i-th array: the token when the bytes
\* read hold one; otherwise the array is not assigned and holds whatever the
\* stack held (the arrays are uninitialised automatic storage)
Field(buf, i, Vals) == IF Len(buf) >= i THEN {buf[i]} ELSE Vals

Init ==
  /\ pc = "entry"
  /\ result = "none"
  /\ failedAt = "none"
  /\ sigpipe = "default"
  /\ sockfd = "none"
  /\ calls = [socket |-> 0, bind |-> 0, listen |-> 0, accept |-> 0]
  /\ thrown = {}
  /\ statusLog = << >>
  /\ conns = << >>
  /\ sent = << >>
  /\ buffer = << >>
  /\ method \in MethodVals
  /\ uri \in UriVals
  /\ version \in VersionVals
  /\ pipe = "none"
  /\ pipeLen = 0
  /\ readPos = 0
  /\ chunk = [lo |-> 1, count |-> 0]
  /\ hist = [popens |-> 0, pcloses |-> 0, bodyWriteFailed |-> FALSE,
             ioAfterFail |-> FALSE, hdrResult |-> -2,
             readAfterPclose |-> FALSE, writeAfterClose |-> FALSE]

\* ------------------------------------------------------------- actions
\* lines 70-77: argument check, signal(SIGPIPE, SIG_IGN), JS_ToCString
Entry ==
  /\ pc = "entry"
  /\ \E isFunction \in BOOLEAN :
       IF ~isFunction
       THEN /\ ReturnError("callback")
            /\ UNCHANGED sigpipe
       ELSE /\ sigpipe' = "ignore"
            /\ pc' = "socket"
            /\ UNCHANGED <<result, failedAt>>
  /\ UNCHANGED <<sockfd, calls, thrown, statusLog, conns, sent, parsed,
                 stream, hist>>

\* lines 83-90: socket()
CreateSocket ==
  /\ pc = "socket"
  /\ calls' = [calls EXCEPT !.socket = @ + 1]
  /\ \E ok \in BOOLEAN :
       IF ~ok
       THEN /\ ReturnError("socket")
            /\ UNCHANGED <<sockfd, statusLog>>
       ELSE /\ sockfd' = "open"
            /\ statusLog' = status(statusLog, "socket created successfully")
            /\ pc' = "bind"
            /\ UNCHANGED <<result, failedAt>>
  /\ UNCHANGED <<sigpipe, thrown, conns, sent, parsed, stream, hist>>

\* a bind failure that is not returned
BindNoReturn ==
  /\ pc = "bind"
  /\ calls' = [calls EXCEPT !.bind = @ + 1]
  /\ \E ok \in BOOLEAN :
       /\ sockfd' = IF ok THEN "bound" ELSE sockfd
       /\ statusLog' = status(statusLog, "socket successfully bound to address")
       /\ pc' = "listen"
       /\ UNCHANGED <<result, failedAt>>
  /\ UNCHANGED <<sigpipe, thrown, conns, sent, parsed, stream, hist>>

\* lines 107-110: bind()
Bind ==
  /\ pc = "bind"
  /\ calls' = [calls EXCEPT !.bind = @ + 1]
  /\ \E ok \in BOOLEAN :
       IF ~ok
       THEN /\ ReturnError("bind")
            /\ UNCHANGED <<sockfd, statusLog>>
       ELSE /\ sockfd' = "bound"
            /\ statusLog' = status(statusLog, "socket successfully bound to address")
            /\ pc' = "listen"
            /\ UNCHANGED <<result, failedAt>>
  /\ UNCHANGED <<sigpipe, thrown, conns, sent, parsed, stream, hist>>

\* lines 114-118: listen()
Listen ==
  /\ pc = "listen"
  /\ calls' = [calls EXCEPT !.listen = @ + 1]
  /\ \E ok \in BOOLEAN :
       IF ~ok
       THEN /\ ReturnError("listen")
            /\ UNCHANGED <<sockfd, statusLog>>
       ELSE /\ sockfd' = "listening"
            /\ statusLog' = status(statusLog, "server listening for connections")
            /\ pc' = "accept"
            /\ UNCHANGED <<result, failedAt>>
  /\ UNCHANGED <<sigpipe, thrown, conns, sent, parsed, stream, hist>>

\* lines 122-128: accept(); a failure raises an error and continues
Accept ==
  /\ pc = "accept"
  /\ calls.accept < MaxAccepts
  /\ calls' = [calls EXCEPT !.accept = @ + 1]
  /\ \E ok \in BOOLEAN :
       IF ~ok
       THEN /\ thrown' = thrown \cup {"accept"}
            /\ pc' = "accept"
            /\ UNCHANGED <<statusLog, conns, sent>>
       ELSE /\ conns' = Append(conns, [sock |-> "open", kind |-> "none"])
            /\ sent' = Append(sent, << >>)
            /\ statusLog' = status(statusLog, "connection accepted")
            /\ pc' = "getsockname"
            /\ UNCHANGED thrown
  /\ UNCHANGED <<result, failedAt, sigpipe, sockfd, parsed, stream, hist>>

\* lines 132-138: getsockname(); a failure raises an error and continues
GetSockName ==
  /\ pc = "getsockname"
  /\ \E ok \in BOOLEAN :
       IF ~ok
       THEN /\ thrown' = thrown \cup {"getsockname"}
            /\ pc' = "accept"
       ELSE /\ pc' = "read"
            /\ UNCHANGED thrown
  /\ UNCHANGED <<result, failedAt, sigpipe, sockfd, calls, statusLog, conns,
                 sent, parsed, stream, hist>>

\* lines 144-148: one read(); a failure raises an error and continues
Read ==
  /\ pc = "read"
  /\ \/ /\ thrown' = thrown \cup {"read"}
        /\ pc' = "accept"
        /\ UNCHANGED buffer
     \/ \E req \in Requests :
          /\ buffer' = req
          /\ pc' = "parse"
          /\ UNCHANGED thrown
  /\ UNCHANGED <<result, failedAt, sigpipe, sockfd, calls, statusLog, conns,
                 sent, method, uri, version, stream, hist>>

\* the parsed fields reported before the peer address
ParseFieldsFirst ==
  /\ pc = "parse"
  /\ method' \in Field(buffer, 1, MethodVals)
  /\ uri' \in Field(buffer, 2, UriVals)
  /\ version' \in Field(buffer, 3, VersionVals)
  /\ statusLog' = status(status(status(status(statusLog, method'), uri'),
                                version'), "peer address")
  /\ pc' = "dispatch"
  /\ UNCHANGED <<result, failedAt, sigpipe, sockfd, calls, thrown, conns, sent,
                 buffer, stream, hist>>

\* lines 154-161: sscanf into method, uri, version; four status() calls
Parse ==
  /\ pc = "parse"
  /\ method' \in Field(buffer, 1, MethodVals)
  /\ uri' \in Field(buffer, 2, UriVals)
  /\ version' \in Field(buffer, 3, VersionVals)
  /\ statusLog' = status(status(status(status(statusLog, "peer address"),
                                       method'), uri'), version')
  /\ pc' = "dispatch"
  /\ UNCHANGED <<result, failedAt, sigpipe, sockfd, calls, thrown, conns, sent,
                 buffer, stream, hist>>

\* a failed write(): with SIGPIPE at its default disposition a write to a
\* connection the peer has closed kills the process; line 74 ignores the
\* signal, and the write returns -1 with EPIPE
Killed(e) == e = "EPIPE" /\ sigpipe = "default"

\* lines 177-188: the OPTIONS branch: header write, close, continue
HandleOptions ==
  /\ pc = "dispatch"
  /\ method = "OPTIONS"
  /\ \E r \in WriteResults(HeaderLen) :
       IF r < 0
       THEN /\ \E e \in WriteErrnos :
                 IF Killed(e)
                 THEN pc' = "killed" /\ UNCHANGED <<result, failedAt>>
                 ELSE ReturnError("write")
            /\ hist' = [hist EXCEPT
                          !.hdrResult = r,
                          !.writeAfterClose = @ \/ conns[cur].sock = "closed"]
            /\ conns' = [conns EXCEPT ![cur].kind = "OPTIONS"]
            /\ UNCHANGED sent
       ELSE /\ sent' = [sent EXCEPT ![cur] = Accepted(@, "hdr", 1, r)]
            /\ hist' = [hist EXCEPT
                          !.hdrResult = r,
                          !.writeAfterClose = @ \/ conns[cur].sock = "closed"]
            /\ conns' = [conns EXCEPT ![cur].kind = "OPTIONS",
                                       ![cur].sock = "closed"]
            /\ pc' = "accept"
            /\ UNCHANGED <<result, failedAt>>
  /\ UNCHANGED <<sigpipe, sockfd, calls, thrown, statusLog, parsed, stream>>

\* a GET branch that does not test what the header write returned
HandleGetUnchecked ==
  /\ pc = "dispatch"
  /\ method # "OPTIONS"
  /\ method = "GET"
  /\ conns' = [conns EXCEPT ![cur].kind = "GET"]
  /\ \E r \in WriteResults(HeaderLen) :
       /\ sent' = [sent EXCEPT ![cur] = Accepted(@, "hdr", 1, r)]
       /\ hist' = [hist EXCEPT
                     !.hdrResult = r,
                     !.writeAfterClose = @ \/ conns[cur].sock = "closed"]
       /\ pc' = "popen"
  /\ UNCHANGED <<result, failedAt, sigpipe, sockfd, calls, thrown, statusLog,
                 parsed, stream>>

\* lines 190-198: the GET branch up to the header write
HandleGet ==
  /\ pc = "dispatch"
  /\ method # "OPTIONS"
  /\ method = "GET"
  /\ conns' = [conns EXCEPT ![cur].kind = "GET"]
  /\ \E r \in WriteResults(HeaderLen) :
       IF r < 0
       THEN /\ \E e \in WriteErrnos :
                 IF Killed(e)
                 THEN pc' = "killed" /\ UNCHANGED <<result, failedAt>>
                 ELSE ReturnError("write")
            /\ hist' = [hist EXCEPT
                          !.hdrResult = r,
                          !.writeAfterClose = @ \/ conns[cur].sock = "closed"]
            /\ UNCHANGED sent
       ELSE /\ sent' = [sent EXCEPT ![cur] = Accepted(@, "hdr", 1, r)]
            /\ hist' = [hist EXCEPT
                          !.hdrResult = r,
                          !.writeAfterClose = @ \/ conns[cur].sock = "closed"]
            /\ pc' = "popen"
            /\ UNCHANGED <<result, failedAt>>
  /\ UNCHANGED <<sigpipe, sockfd, calls, thrown, statusLog, parsed, stream>>

\* a fall-through that closes the socket before the next accept
FallThroughClose ==
  /\ pc = "dispatch"
  /\ method # "OPTIONS"
  /\ method # "GET"
  /\ conns' = [conns EXCEPT ![cur].kind = "other", ![cur].sock = "closed"]
  /\ pc' = "accept"
  /\ UNCHANGED <<result, failedAt, sigpipe, sockfd, calls, thrown, statusLog,
                 sent, parsed, stream, hist>>

\* lines 177, 190, 228: neither strcmp matches; the loop body ends
FallThrough ==
  /\ pc = "dispatch"
  /\ method # "OPTIONS"
  /\ method # "GET"
  /\ conns' = [conns EXCEPT ![cur].kind = "other"]
  /\ pc' = "accept"
  /\ UNCHANGED <<result, failedAt, sigpipe, sockfd, calls, thrown, statusLog,
                 sent, parsed, stream, hist>>

\* lines 204-208: popen(command, "r")
Popen ==
  /\ pc = "popen"
  /\ \E ok \in BOOLEAN :
       IF ~ok
       THEN /\ ReturnError("popen")
            /\ UNCHANGED <<stream, hist>>
       ELSE /\ pipe' = "open"
            /\ pipeLen' \in PipeLens
            /\ readPos' = 0
            /\ UNCHANGED chunk
            /\ hist' = [hist EXCEPT !.popens = @ + 1]
            /\ pc' = "fread"
            /\ UNCHANGED <<result, failedAt>>
  /\ UNCHANGED <<sigpipe, sockfd, calls, thrown, statusLog, conns, sent,
                 parsed>>

\* line 212: fread(writable, 1, sizeof(writable), pipe) returns a full chunk,
\* or what is left when the subprocess output ends (0 at end-of-stream)
Fread ==
  /\ pc = "fread"
  /\ LET count == Min(ChunkSize, pipeLen - readPos) IN
       /\ chunk' = [lo |-> readPos + 1, count |-> count]
       /\ readPos' = readPos + count
  /\ hist' = [hist EXCEPT
                !.ioAfterFail = @ \/ hist.bodyWriteFailed,
                !.readAfterPclose = @ \/ pipe # "open"]
  /\ pc' = "write"
  /\ UNCHANGED <<result, failedAt, sigpipe, sockfd, calls, thrown, statusLog,
                 conns, sent, parsed, pipe, pipeLen>>

\* a body write whose failure is not noticed: the loop goes on
StreamWriteRetry ==
  /\ pc = "write"
  /\ \E r \in WriteResults(chunk.count) :
       /\ sent' = [sent EXCEPT ![cur] = Accepted(@, "body", chunk.lo, r)]
       /\ hist' = [hist EXCEPT
                     !.ioAfterFail = @ \/ hist.bodyWriteFailed,
                     !.bodyWriteFailed = @ \/ r < 0,
                     !.writeAfterClose = @ \/ conns[cur].sock = "closed"]
       /\ pc' = "fread"
  /\ UNCHANGED <<result, failedAt, sigpipe, sockfd, calls, thrown, statusLog,
                 conns, parsed, stream>>

\* a loop that also ends, silently, when a zero-byte chunk was written
StreamWriteEofBreak ==
  /\ pc = "write"
  /\ \E r \in WriteResults(chunk.count) :
       /\ sent' = [sent EXCEPT ![cur] = Accepted(@, "body", chunk.lo, r)]
       /\ hist' = [hist EXCEPT
                     !.ioAfterFail = @ \/ hist.bodyWriteFailed,
                     !.bodyWriteFailed = @ \/ r < 0,
                     !.writeAfterClose = @ \/ conns[cur].sock = "closed"]
       /\ pc' = IF r < 0 THEN "abort"
                ELSE IF chunk.count = 0 THEN "close" ELSE "fread"
  /\ UNCHANGED <<result, failedAt, sigpipe, sockfd, calls, thrown, statusLog,
                 conns, parsed, stream>>

\* lines 213-215, 221: write(request, writable, count); only a negative
\* result leaves the loop
StreamWrite ==
  /\ pc = "write"
  /\ \E r \in WriteResults(chunk.count) :
       IF r < 0
       THEN /\ \E e \in WriteErrnos :
                 pc' = IF Killed(e) THEN "killed" ELSE "abort"
            /\ hist' = [hist EXCEPT
                          !.ioAfterFail = @ \/ hist.bodyWriteFailed,
                          !.bodyWriteFailed = TRUE,
                          !.writeAfterClose = @ \/ conns[cur].sock = "closed"]
            /\ UNCHANGED sent
       ELSE /\ sent' = [sent EXCEPT ![cur] = Accepted(@, "body", chunk.lo, r)]
            /\ hist' = [hist EXCEPT
                          !.ioAfterFail = @ \/ hist.bodyWriteFailed,
                          !.writeAfterClose = @ \/ conns[cur].sock = "closed"]
            /\ pc' = "fread"
  /\ UNCHANGED <<result, failedAt, sigpipe, sockfd, calls, thrown, statusLog,
                 conns, parsed, stream>>

\* the failure branch without the pclose
AbortNoPclose ==
  /\ pc = "abort"
  /\ statusLog' = status(statusLog, "aborted")
  /\ pc' = "close"
  /\ UNCHANGED <<result, failedAt, sigpipe, sockfd, calls, thrown, conns, sent,
                 parsed, stream, hist>>

\* lines 215-219: pclose(pipe); status("aborted"); break
Abort ==
  /\ pc = "abort"
  /\ pipe' = "closed"
  /\ hist' = [hist EXCEPT !.pcloses = @ + 1]
  /\ statusLog' = status(statusLog, "aborted")
  /\ pc' = "close"
  /\ UNCHANGED <<result, failedAt, sigpipe, sockfd, calls, thrown, conns, sent,
                 parsed, pipeLen, readPos, chunk>>

\* a return that also closes the listening socket
CloseRequestAndListener ==
  /\ pc = "close"
  /\ conns' = [conns EXCEPT ![cur].sock = "closed"]
  /\ sockfd' = "closed"
  /\ pc' = "returned"
  /\ result' = "undefined"
  /\ UNCHANGED <<failedAt, sigpipe, calls, thrown, statusLog, sent, parsed,
                 stream, hist>>

\* lines 223-230: close(request); JS_FreeCString; break; return JS_UNDEFINED
CloseRequest ==
  /\ pc = "close"
  /\ conns' = [conns EXCEPT ![cur].sock = "closed"]
  /\ pc' = "returned"
  /\ result' = "undefined"
  /\ UNCHANGED <<failedAt, sigpipe, sockfd, calls, thrown, statusLog, sent,
                 parsed, stream, hist>>

Next ==
  \/ Entry
  \/ CreateSocket
  \/ Bind
  \/ Listen
  \/ Accept
  \/ GetSockName
  \/ Read
  \/ Parse
  \/ HandleOptions
  \/ HandleGet
  \/ FallThrough
  \/ Popen
  \/ Fread
  \/ StreamWrite
  \/ Abort
  \/ CloseRequest

Spec == Init /\ [][Next]_vars

\* The entry call is one sequential flow of control: whenever its next step
\* can be taken (the system call it is blocked in returns), it is taken.
FairSpec == Spec /\ WF_vars(Next)

\* ------------------------------------------------------------ properties
\* the streaming loop, lines 210-221
Streaming == pc \in {"fread", "write"}

\* the body segments a socket accepted, in order
Body(c) == SelectSeq(sent[c], LAMBDA x : x.k = "body")

\* segments that follow one another from byte 1 on, none left out
Contiguous(segs) ==
  \A i \in 1..Len(segs) :
    segs[i].lo = IF i = 1 THEN 1 ELSE segs[i - 1].hi + 1

\* number of times str was handed to status()
StatusCount(str) == Cardinality({i \in DOMAIN statusLog : statusLog[i] = str})

AllSocketsClosed == \A c \in 1..Len(conns) : conns[c].sock = "closed"

\* C1: once fread has returned zero bytes (end of the subprocess output) the
\* streaming loop is eventually left and the pipe is pclosed.
C1_EndOfStreamTerminates ==
  (pc = "write" /\ chunk.count = 0) ~> (~Streaming /\ pipe = "closed")

\* C2: after a connection dispatched as OPTIONS the listener is back at
\* accept, whatever the header write returned; after a connection dispatched
\* as GET the listener is never at accept again.
C2_OptionsContinuesGetStops ==
  /\ dispatch = "OPTIONS" => pc = "accept"
  /\ dispatch = "GET" => pc # "accept"

\* C3: whenever the listener is back at accept or the entry call has
\* returned, every accepted socket is closed and no pipe is open.
C3_ReleasedOnEveryExit ==
  pc \in {"accept", "returned"} => AllSocketsClosed /\ pipe # "open"

\* C4: once the listener has entered the accept loop the entry call never
\* returns an error; it returns only by the stop after a GET.
C4_NoErrorAfterListening ==
  sockfd = "listening" =>
    /\ result # "exception"
    /\ pc = "returned" => dispatch = "GET" /\ result = "undefined"

\* C5: on every socket the body bytes accepted are bytes 1..n of the pipe, in
\* order and none skipped, n is at most what was read, and no chunk is
\* larger than 1764 bytes.
C5_BodyIsPipePrefix ==
  /\ chunk.count <= ChunkSize
  /\ \A c \in 1..Len(sent) :
       /\ Contiguous(Body(c))
       /\ Body(c) # << >> => Body(c)[Len(Body(c))].hi <= readPos

\* C6: the socket of a GET connection is closed only after its pipe has been
\* pclosed.
C6_PcloseBeforeClose ==
  \A c \in 1..Len(conns) :
    conns[c].kind = "GET" /\ conns[c].sock = "closed" =>
      pipe = "closed" /\ hist.pcloses >= 1 /\ hist.popens = hist.pcloses

\* C6 witness: a GET session whose first chunk was written short and that
\* ended by a failed write, with its socket closed.
C6_Witness ==
  /\ dispatch = "GET"
  /\ conns[cur].sock = "closed"
  /\ hist.bodyWriteFailed
  /\ Body(cur) # << >>
  /\ Body(cur)[1].hi = ChunkSize - 1

C8_PopenFailureClosesSocket ==
  failedAt = "popen" =>
    /\ conns[cur].sock = "closed"
    /\ pipe = "none"
    /\ Body(cur) = << >>

\* C9: whatever a socket accepted begins with the whole header block, body
\* bytes come only after it, and popen is called only after the header write
\* returned without error.
C9_HeaderInFullBeforeBody ==
  /\ \A c \in 1..Len(sent) :
       sent[c] # << >> =>
         /\ sent[c][1] = [k |-> "hdr", lo |-> 1, hi |-> HeaderLen]
         /\ \A i \in 2..Len(sent[c]) : sent[c][i].k = "body"
  /\ hist.popens > 0 => hist.hdrResult >= 0

\* C10: socket, bind and listen are each called at most once; a call that
\* fails makes the entry call return an error in that step, accept is never
\* called, and only the earlier milestones were reported.
C10_SetupFailuresFatal ==
  /\ calls.socket <= 1 /\ calls.bind <= 1 /\ calls.listen <= 1
  /\ calls.socket = 1 /\ sockfd = "none" => failedAt = "socket"
  /\ calls.bind = 1 /\ sockfd = "open" => failedAt = "bind"
  /\ calls.listen = 1 /\ sockfd = "bound" => failedAt = "listen"
  /\ failedAt \in {"socket", "bind", "listen"} =>
       /\ pc = "returned" /\ result = "exception"
       /\ calls.accept = 0 /\ conns = << >>
  /\ failedAt = "socket" =>
       statusLog = << >> /\ calls.bind = 0 /\ calls.listen = 0
  /\ failedAt = "bind" =>
       statusLog = <<"socket created successfully">> /\ calls.listen = 0
  /\ failedAt = "listen" =>
       statusLog = <<"socket created successfully",
                     "socket successfully bound to address">>

\* C10 witness: listen failed after socket and bind succeeded.
C10_Witness ==
  /\ failedAt = "listen"
  /\ pc = "returned"
  /\ calls = [socket |-> 1, bind |-> 1, listen |-> 1, accept |-> 0]

\* the three messages of the setup, lines 90, 110, 118
SetupLog ==
  <<"socket created successfully", "socket successfully bound to address",
    "server listening for connections">>

\* the messages of the current connection once its request is parsed
ConnLog == <<"connection accepted", "peer address", method, uri, version>>

\* the status log without a final abort notice
BeforeAbort ==
  IF statusLog # << >> /\ statusLog[Len(statusLog)] = "aborted"
  THEN SubSeq(statusLog, 1, Len(statusLog) - 1)
  ELSE statusLog

LastOf(log, n) == SubSeq(log, Len(log) - n + 1, Len(log))

\* a connection that failed before its request was parsed, and is over
FailedEarly(c) ==
  conns[c].kind = "none" /\ (c < cur \/ pc \in {"accept", "returned"})

\* C11: a failed accept, getsockname or read is reported to the Status Sink;
\* the failed connection gets no response byte and no subprocess, and the
\* listener is back at accept.
C11_RecoverableErrorsReported ==
  /\ \A call \in thrown :
       \E i \in DOMAIN statusLog : statusLog[i] = ErrorText(call)
  /\ \A c \in 1..Len(conns) : FailedEarly(c) => sent[c] = << >>
  /\ cur > 0 /\ FailedEarly(cur) =>
       pc = "accept" /\ pipe = "none" /\ result = "none"

\* C12: a connection dispatched as OPTIONS has accepted exactly the header
\* block, its socket is closed, no subprocess was launched for it, and the
\* listener is at accept with the listening socket open.
C12_OptionsHeaderOnly ==
  \A c \in 1..Len(conns) :
    conns[c].kind = "OPTIONS" =>
      /\ sent[c] = <<[k |-> "hdr", lo |-> 1, hi |-> HeaderLen]>>
      /\ conns[c].sock = "closed"
      /\ c = cur =>
           pc = "accept" /\ result = "none" /\ sockfd = "listening" /\
           pipe = "none"

\* C13: the status log begins with the three setup messages, once each; every
\* peer address directly follows a 'connection accepted' and is directly
\* followed by method, URI and version; these five are the end of the log
\* when the connection is dispatched (before any response byte); 'aborted'
\* appears only as the last message, after a failed body write.
C13_StatusOrder ==
  /\ calls.accept > 0 => SubSeq(statusLog, 1, 3) = SetupLog
  /\ \A i \in 1..3 : StatusCount(SetupLog[i]) <= 1
  /\ StatusCount("connection accepted") = Len(conns)
  /\ \A i \in DOMAIN statusLog :
       /\ statusLog[i] = "connection accepted" => i > 3
       /\ statusLog[i] = "peer address" =>
            /\ i > 1 /\ statusLog[i - 1] = "connection accepted"
            /\ i + 3 <= Len(statusLog)
            /\ statusLog[i + 1] \in MethodVals
            /\ statusLog[i + 2] \in UriVals
            /\ statusLog[i + 3] \in VersionVals
       /\ statusLog[i] = "aborted" =>
            i = Len(statusLog) /\ hist.bodyWriteFailed
  /\ cur > 0 /\ (conns[cur].kind # "none" \/ sent[cur] # << >>) =>
       /\ Len(BeforeAbort) >= 5
       /\ LastOf(BeforeAbort, 5) = ConnLog

\* C13 witness: two connections were parsed and the second, a GET that got
\* body bytes, ended with the abort notice.
C13_Witness ==
  /\ Len(conns) = 2
  /\ StatusCount("peer address") = 2
  /\ Body(cur) # << >>
  /\ statusLog[Len(statusLog)] = "aborted"

\* the i-th field as the bytes read determine it: the token, or "" when the
\* request line has no i-th token
FieldOf(buf, i) == IF Len(buf) >= i THEN buf[i] ELSE ""

\* C14: the method, URI and version reported for a connection are the tokens
\* of the bytes read from it, "" for a missing token, and a connection is
\* dispatched as OPTIONS or GET only when it sent that method token.
C14_MissingFieldsEmpty ==
  /\ pc = "dispatch" =>
       /\ method = FieldOf(buffer, 1)
       /\ uri = FieldOf(buffer, 2)
       /\ version = FieldOf(buffer, 3)
       /\ LastOf(statusLog, 3) = <<method, uri, version>>
  /\ cur > 0 /\ conns[cur].kind \in {"OPTIONS", "GET"} =>
       buffer # << >> /\ buffer[1] = conns[cur].kind

\* the accepted sockets that are open
OpenSockets == {c \in 1..Len(conns) : conns[c].sock = "open"}

\* C15: at most one accepted socket is open and at most one pipe is open.
C15_AtMostOneOpen ==
  /\ Cardinality(OpenSockets) <= 1
  /\ hist.popens - hist.pcloses <= 1

\* C16: a connection whose method is neither OPTIONS nor GET gets no byte,
\* no subprocess, its socket stays open, and the listener is at accept
\* without having returned.
C16_UnsupportedFallsThrough ==
  \A c \in 1..Len(conns) :
    conns[c].kind = "other" =>
      /\ sent[c] = << >>
      /\ conns[c].sock = "open"
      /\ c = cur =>
           /\ method \notin {"OPTIONS", "GET"}
           /\ pc = "accept" /\ result = "none"
           /\ pipe = "none" /\ hist.popens = 0

\* C16 witness: after an unsupported method, whose socket is still open, the
\* listener accepted a GET connection and is streaming to it.
C16_Witness ==
  /\ Len(conns) = 2
  /\ conns[1].kind = "other" /\ conns[1].sock = "open"
  /\ conns[2].kind = "GET"
  /\ Streaming

\* C17: the streaming loop is left only by a failed body write: a return of
\* undefined, and a closed GET socket, are preceded by exactly one pclose and
\* exactly one 'aborted'.
C17_OnlyWriteFailureEndsLoop ==
  /\ hist.popens > 0 /\ ~Streaming => hist.bodyWriteFailed
  /\ result = "undefined" =>
       /\ dispatch = "GET"
       /\ hist.bodyWriteFailed
       /\ hist.pcloses = 1 /\ StatusCount("aborted") = 1
  /\ \A c \in 1..Len(conns) :
       conns[c].kind = "GET" /\ conns[c].sock = "closed" =>
         StatusCount("aborted") = 1

\* C17 witness: the entry call returned undefined after the whole subprocess
\* output had been read: the end of the output did not end the loop, the
\* failed write of an empty chunk did.
C17_Witness ==
  /\ result = "undefined"
  /\ pipeLen > 0 /\ readPos = pipeLen
  /\ chunk.count = 0

\* C18: popen is called at most once, only for a connection dispatched as GET
\* whose header write did not fail; the pipe is pclosed at most once and not
\* read afterwards; no accepted socket is written after its close.
C18_OneSubprocess ==
  /\ hist.popens <= 1
  /\ hist.pcloses <= hist.popens
  /\ hist.popens = 1 =>
       dispatch = "GET" /\ method = "GET" /\ hist.hdrResult >= 0
  /\ pipe = "closed" => pc \in {"close", "returned"}
  /\ ~hist.readAfterPclose
  /\ ~hist.writeAfterClose

\* C18 witness: a preflight was answered, then a GET was streamed and its
\* pipe pclosed.
C18_Witness ==
  /\ Len(conns) = 2
  /\ conns[1].kind = "OPTIONS"
  /\ hist.popens = 1 /\ hist.pcloses = 1
  /\ pc = "returned"

\* C19: once created, the listening socket is never closed: it is open in
\* every later state, also after the entry call has returned.
C19_ListenerNeverClosed ==
  /\ sockfd # "closed"
  /\ statusLog # << >> => sockfd \in {"open", "bound", "listening"}
  /\ failedAt = "bind" => sockfd = "open"
  /\ failedAt = "listen" => sockfd = "bound"
  /\ failedAt \in {"write", "popen"} => sockfd = "listening"
  /\ result = "undefined" => sockfd = "listening"

\* C19 witness: the entry call has returned after a GET and the listening
\* socket is still listening.
C19_Witness ==
  /\ pc = "returned"
  /\ result = "undefined"
  /\ sockfd = "listening"

====
